---- MODULE Spec2Model ----
(***************************************************************************)
(* examples/regression_tutorial.ipynb of TyXe, run cell by cell in         *)
(* notebook order.  A statement is identified by the line of the .ipynb    *)
(* file that holds it.  The notebook's own code (cell order, assignments,  *)
(* for loops, the fit callback, the arguments of the library calls) is     *)
(* modelled from the notebook; what tyxe's fit / predict / evaluate do     *)
(* inside is modelled from the notebook's prose, since the library is not  *)
(* part of the sources at hand.                                            *)
(***************************************************************************)
EXTENDS Integers, Sequences, FiniteSets, TLC

(* ------------------------------------------------------------------ *)
(* Scaled-down stand-ins for the notebook's large literals and the     *)
(* sizes of the value domains.                                         *)
(* ------------------------------------------------------------------ *)
\* range(10000) of the MLE training loop
MleIters == 2
\* num_epochs = 20000 of bnn.fit
NumEpochs == 3
\* num_samples = 100000 of mcmc_bnn.fit
McmcNumSamples == 3
\* warmup_steps = 20000 of mcmc_bnn.fit
WarmupSteps == 2
\* num_predictions = 32 of the aggregated predict / evaluate calls
NumPredictions == 2
\* num_predictions = 25 of the un-aggregated predict call
NumSampled == 3

\* range(1, 4) of the two fill_between loops
RangeLo == 1
RangeHi == 4

\* the average ELBO an epoch can report, and the value a sampled network
\* can predict (abstract values)
ElboVals == {1, 2}
PredVals == {0, 1}

(* ------------------------------------------------------------------ *)
(* The statements of the notebook.                                     *)
(* ------------------------------------------------------------------ *)
St(l, k, d, u) == [line |-> l, kind |-> k, defs |-> d, uses |-> u]

CellPath == << St(7, "simple", {"sys"}, {}),
               St(8, "simple", {}, {"sys"}) >>

CellImports == << St(17, "simple", {"partial"}, {}),
                  St(19, "simple", {"plt"}, {}),
                  St(20, "simple", {}, {}),
                  St(22, "simple", {"torch"}, {}),
                  St(23, "simple", {"nn"}, {}),
                  St(24, "simple", {"data"}, {}),
                  St(26, "simple", {"pyro"}, {}),
                  St(27, "simple", {"dist"}, {}),
                  St(29, "simple", {"tyxe"}, {}),
                  St(30, "simple", {}, {"pyro"}) >>

CellData == << St(61, "simple", {"x1"}, {"torch"}),
               St(62, "simple", {"x2"}, {"torch"}),
               St(63, "simple", {"x"}, {"torch", "x1", "x2"}),
               St(64, "simple", {"y"}, {"torch", "x"}),
               St(66, "simple", {"x_test"}, {"torch"}),
               St(67, "simple", {"y_test"}, {"x_test"}) >>

CellLoader == << St(76, "simple", {"dataset"}, {"data", "x", "y"}),
                 St(77, "simple", {"loader"}, {"data", "dataset", "x"}) >>

CellPlotData == << St(86, "simple", {}, {"plt", "x", "y"}),
                   St(87, "simple", {}, {"plt", "x_test", "y_test"}) >>

CellMLE == << St(111, "simple", {"net"}, {"nn"}),
              St(112, "simple", {"optim"}, {"torch", "net"}),
              St(113, "for", {"_"}, {}) >>

CellPlotMLE == << St(125, "simple", {}, {"plt", "x", "y"}),
                  St(126, "simple", {}, {"plt", "x_test", "y_test"}),
                  St(127, "simple", {}, {"plt", "x_test", "net"}),
                  St(128, "simple", {}, {"plt"}) >>

CellNet == << St(162, "simple", {"net"}, {"nn"}) >>

CellPrior == << St(183, "simple", {"prior"}, {"tyxe", "dist"}) >>

CellLikelihood == << St(201, "simple", {"obs_model"}, {"tyxe", "x"}) >>

CellGuide == << St(229, "simple", {"guide_builder"}, {"partial", "tyxe"}) >>

CellBnn == << St(250, "bnn", {"bnn"},
                 {"tyxe", "net", "prior", "obs_model", "guide_builder"}) >>

CellFit == << St(259, "simple", {}, {"pyro"}),
              St(260, "simple", {"optim"}, {"pyro"}),
              St(261, "elbos", {"elbos"}, {}),
              St(262, "simple", {"callback"}, {}),
              St(265, "fit", {}, {"bnn", "loader", "optim", "callback"}) >>

CellPlotElbos == << St(274, "simple", {}, {"plt", "elbos"}) >>

CellMcmcBnn == << St(293, "simple", {}, {"pyro"}),
                  St(294, "simple", {"mcmc_net"}, {"nn"}),
                  St(295, "simple", {"mcmc_prior"}, {"tyxe", "dist"}),
                  St(296, "simple", {"mcmc_likelihood"}, {"tyxe", "x"}),
                  St(297, "simple", {"kernel"}, {"partial", "pyro"}),
                  St(298, "mcmc_bnn", {"mcmc_bnn"},
                     {"tyxe", "mcmc_net", "mcmc_prior", "mcmc_likelihood", "kernel"}) >>

CellMcmcFit == << St(307, "mcmcfit", {}, {"mcmc_bnn", "loader"}) >>

CellPredict == << St(330, "predict", {"m", "sd"}, {"bnn", "x_test"}) >>

CellPlotPredict == << St(339, "simple", {}, {"plt", "x_test", "y_test"}),
                      St(340, "simple", {}, {"plt", "x_test", "m"}),
                      St(341, "for", {"c"}, {}),
                      St(343, "simple", {}, {"plt"}) >>

CellMcmcPredict == << St(352, "predict", {"m", "sd"}, {"mcmc_bnn", "x_test"}) >>

CellPlotMcmcPredict == << St(361, "simple", {}, {"plt", "x", "y"}),
                          St(362, "simple", {}, {"plt", "x_test", "y_test"}),
                          St(363, "simple", {}, {"plt", "x_test", "m"}),
                          St(364, "for", {"c"}, {}),
                          St(366, "simple", {}, {"plt"}) >>

CellSampled == << St(382, "predict", {"sampled_predictions"}, {"bnn", "x_test"}),
                  St(383, "simple", {}, {"plt", "x", "y"}),
                  St(384, "simple", {}, {"plt", "x_test", "y_test"}),
                  St(385, "for", {"yhat"}, {"sampled_predictions"}),
                  St(387, "simple", {}, {"plt"}) >>

CellEvaluate == << St(411, "evaluate", {"error", "ll"}, {"bnn", "x_test", "y_test"}),
                   St(413, "simple", {}, {"error", "ll"}) >>

\* the cells with the first prediction cell placed before the cell that fits bnn
ProgramReordered ==
    CellPath \o CellImports \o CellData \o CellLoader \o CellPlotData \o
    CellMLE \o CellPlotMLE \o CellNet \o CellPrior \o CellLikelihood \o
    CellGuide \o CellBnn \o CellPredict \o CellFit \o CellPlotElbos \o
    CellMcmcBnn \o CellMcmcFit \o CellPlotPredict \o CellMcmcPredict \o
    CellPlotMcmcPredict \o CellSampled \o CellEvaluate

\* the top-level statements, in notebook order
Program ==
    CellPath \o CellImports \o CellData \o CellLoader \o CellPlotData \o
    CellMLE \o CellPlotMLE \o CellNet \o CellPrior \o CellLikelihood \o
    CellGuide \o CellBnn \o CellFit \o CellPlotElbos \o CellMcmcBnn \o
    CellMcmcFit \o CellPredict \o CellPlotPredict \o CellMcmcPredict \o
    CellPlotMcmcPredict \o CellSampled \o CellEvaluate

\* the statements nested in a for statement, or in the def of the callback
Body(l) ==
    CASE l = 113 -> << St(114, "body", {}, {"optim"}),
                       St(115, "body", {}, {"net", "x", "y"}),
                       St(116, "body", {}, {"optim"}) >>
      [] l = 262 -> << St(263, "body", {}, {"elbos"}) >>
      [] l = 341 -> << St(342, "body", {}, {"plt", "x_test", "m", "c", "sd"}) >>
      [] l = 364 -> << St(365, "body", {}, {"plt", "x_test", "m", "c", "sd"}) >>
      [] l = 385 -> << St(386, "body", {}, {"plt", "x_test", "yhat"}) >>
      [] OTHER -> << >>

Range(s) == {s[i] : i \in DOMAIN s}

Compound == {113, 262, 341, 364, 385}

AllStmts == Range(Program) \cup UNION {Range(Body(l)) : l \in Compound}

Lines == {s.line : s \in AllStmts}

Names == UNION {s.defs \cup s.uses : s \in AllStmts}

Halt == Len(Program) + 1

StmtAt(l) == CHOOSE s \in AllStmts : s.line = l

(* ------------------------------------------------------------------ *)
(* The arguments the notebook passes to the library.                   *)
(* ------------------------------------------------------------------ *)
\* bnn.fit(loader, optim, 20000, callback)
FitArgs == [num_epochs |-> NumEpochs, callback |-> "callback"]

\* mcmc_bnn.fit(loader, 100000, warmup_steps=20000)
McmcFitArgs == [num_samples |-> McmcNumSamples, warmup_steps |-> WarmupSteps]

\* m, sd = bnn.predict(x_test, num_predictions=32)
BnnPredictArgs == [obj |-> "bnn", num_predictions |-> NumPredictions, aggregate |-> TRUE]

\* the call asking for more predictions than the chain was asked to store
McmcPredictArgsTooMany ==
    [obj |-> "mcmc_bnn", num_predictions |-> McmcNumSamples + 1, aggregate |-> TRUE]

\* m, sd = mcmc_bnn.predict(x_test, num_predictions=32)
McmcPredictArgs ==
    [obj |-> "mcmc_bnn", num_predictions |-> NumPredictions, aggregate |-> TRUE]

\* the call without aggregate=False
SampledPredictArgsAggregated ==
    [obj |-> "bnn", num_predictions |-> NumSampled, aggregate |-> TRUE]

\* sampled_predictions = bnn.predict(x_test, num_predictions=25, aggregate=False)
SampledPredictArgs == [obj |-> "bnn", num_predictions |-> NumSampled, aggregate |-> FALSE]

PredictArgs(l) ==
    CASE l = 330 -> BnnPredictArgs
      [] l = 352 -> McmcPredictArgs
      [] l = 382 -> SampledPredictArgs

\* error, ll = bnn.evaluate(x_test, y_test, 32, reduction='mean')
EvaluateArgs == [obj |-> "bnn", num_predictions |-> NumPredictions]

(* ------------------------------------------------------------------ *)
(* State.                                                              *)
(* ------------------------------------------------------------------ *)
VARIABLES
    ip,        \* index in Program of the top-level statement being executed
    at,        \* line control is at inside that statement, 0 between statements
    iter,      \* completed iterations of the for loop being executed
    failed,    \* line whose exception ended the run, 0 while none
    count,     \* per line, how often the statement has begun to execute
    env,       \* the kernel's namespace: per name the line that bound it, 0 if unbound
    bnn,       \* the VariationalBNN object
    mcmc_bnn,  \* the MCMC_BNN object
    epoch,     \* completed epochs of bnn.fit
    history,   \* the average ELBO of each epoch bnn.fit has trained
    cb,        \* arguments of the callback invocation in progress
    elbos,     \* the notebook's list elbos
    draws,     \* MCMC transitions made so far
    m, sd,     \* the notebook's variables m and sd
    sampled_predictions,
    error_ll,  \* the notebook's variables error and ll
    last       \* the predictions the latest predict / evaluate call sampled

vars == << ip, at, iter, failed, count, env, bnn, mcmc_bnn, epoch, history, cb,
           elbos, draws, m, sd, sampled_predictions, error_ll, last >>

Unset == << >>

Init ==
    /\ ip = 1
    /\ at = 0
    /\ iter = 0
    /\ failed = 0
    /\ count = [l \in Lines |-> 0]
    /\ env = [n \in Names |-> 0]
    /\ bnn = [state |-> "unbound", net |-> 0, prior |-> 0, likelihood |-> 0,
              guide_builder |-> 0, trained |-> 0]
    /\ mcmc_bnn = [state |-> "unbound", net |-> 0, prior |-> 0, likelihood |-> 0,
                   kernel |-> 0, samples |-> << >>]
    /\ epoch = 0
    /\ history = << >>
    /\ cb = Unset
    /\ elbos = Unset
    /\ draws = 0
    /\ m = Unset
    /\ sd = Unset
    /\ sampled_predictions = Unset
    /\ error_ll = Unset
    /\ last = [line |-> 0, asked |-> 0, preds |-> << >>]

Cur == Program[ip]

\* a name the statement reads is not bound: Python raises NameError
Unbound(s) == \E n \in s.uses : env[n] = 0

Bind(s) == [n \in Names |-> IF n \in s.defs THEN s.line ELSE env[n]]

Began(l) == [count EXCEPT ![l] = @ + 1]

\* the exception caught where it is raised, execution carrying on
RaiseSwallowed(l) ==
    /\ failed' = l
    /\ ip' = ip
    /\ at' = at

\* No statement of the notebook is inside a try: an exception raised at line l
\* unwinds every frame and ends the run of the cell (and of the run in cell order).
Raise(l) ==
    /\ failed' = l
    /\ ip' = Halt
    /\ at' = 0

data == << bnn, mcmc_bnn, epoch, history, cb, elbos, draws, m, sd,
           sampled_predictions, error_ll, last >>

(* ------------------------------------------------------------------ *)
(* Simple statements: imports, assignments, plotting calls, def.       *)
(* ------------------------------------------------------------------ *)
ExecSimple ==
    /\ ip < Halt /\ at = 0
    /\ Cur.kind \in {"simple", "elbos"}
    /\ count' = Began(Cur.line)
    /\ IF Unbound(Cur)
         THEN /\ Raise(Cur.line)
              /\ UNCHANGED << iter, env, data >>
         ELSE /\ ip' = ip + 1
              /\ env' = Bind(Cur)
              /\ elbos' = IF Cur.kind = "elbos" THEN << >> ELSE elbos
              /\ UNCHANGED << at, iter, failed, bnn, mcmc_bnn, epoch, history, cb,
                              draws, m, sd, sampled_predictions, error_ll, last >>

\* bnn = tyxe.VariationalBNN(net, prior, obs_model, guide_builder)
NewBnn ==
    /\ ip < Halt /\ at = 0
    /\ Cur.kind = "bnn"
    /\ count' = Began(Cur.line)
    /\ IF Unbound(Cur)
         THEN /\ Raise(Cur.line)
              /\ UNCHANGED << iter, env, data >>
         ELSE /\ ip' = ip + 1
              /\ env' = Bind(Cur)
              /\ bnn' = [state |-> "new", net |-> env["net"], prior |-> env["prior"],
                         likelihood |-> env["obs_model"],
                         guide_builder |-> env["guide_builder"], trained |-> 0]
              /\ UNCHANGED << at, iter, failed, mcmc_bnn, epoch, history, cb, elbos,
                              draws, m, sd, sampled_predictions, error_ll, last >>

\* mcmc_bnn = tyxe.bnn.MCMC_BNN(mcmc_net, mcmc_prior, mcmc_likelihood, kernel)
NewMcmcBnn ==
    /\ ip < Halt /\ at = 0
    /\ Cur.kind = "mcmc_bnn"
    /\ count' = Began(Cur.line)
    /\ IF Unbound(Cur)
         THEN /\ Raise(Cur.line)
              /\ UNCHANGED << iter, env, data >>
         ELSE /\ ip' = ip + 1
              /\ env' = Bind(Cur)
              /\ mcmc_bnn' = [state |-> "new", net |-> env["mcmc_net"],
                              prior |-> env["mcmc_prior"],
                              likelihood |-> env["mcmc_likelihood"],
                              kernel |-> env["kernel"], samples |-> << >>]
              /\ UNCHANGED << at, iter, failed, bnn, epoch, history, cb, elbos,
                              draws, m, sd, sampled_predictions, error_ll, last >>

(* ------------------------------------------------------------------ *)
(* for statements.                                                     *)
(* ------------------------------------------------------------------ *)
\* the number of items the for statement at line l iterates over
ForLen(l) ==
    CASE l = 113 -> MleIters
      [] l \in {341, 364} -> RangeHi - RangeLo
      [] l = 385 -> Len(sampled_predictions)

\* a loop taking one iteration too many
LoopContinuesOffByOne(i, n) == i <= n

\* after i completed iterations over n items, the loop takes another one
LoopContinues(i, n) == i < n

ForEnter ==
    /\ ip < Halt /\ at = 0
    /\ Cur.kind = "for"
    /\ count' = Began(Cur.line)
    /\ IF Unbound(Cur)
         THEN /\ Raise(Cur.line)
              /\ UNCHANGED << iter, env, data >>
         ELSE /\ iter' = 0
              /\ IF LoopContinues(0, ForLen(Cur.line))
                   THEN /\ at' = Body(Cur.line)[1].line
                        /\ env' = Bind(Cur)
                        /\ ip' = ip
                   ELSE /\ at' = 0
                        /\ env' = env
                        /\ ip' = ip + 1
              /\ UNCHANGED << failed, data >>

PosIn(body, l) == CHOOSE k \in DOMAIN body : body[k].line = l

ForBody ==
    /\ ip < Halt /\ at # 0
    /\ Cur.kind = "for"
    /\ LET body == Body(Cur.line)
           k == PosIn(body, at)
       IN /\ count' = Began(at)
          /\ IF Unbound(body[k])
               THEN /\ Raise(at)
                    /\ UNCHANGED << iter, env, data >>
               ELSE /\ IF k < Len(body)
                         THEN /\ at' = body[k + 1].line
                              /\ UNCHANGED << ip, iter >>
                         ELSE /\ iter' = iter + 1
                              /\ IF LoopContinues(iter + 1, ForLen(Cur.line))
                                   THEN at' = body[1].line /\ ip' = ip
                                   ELSE at' = 0 /\ ip' = ip + 1
                    /\ UNCHANGED << failed, env, data >>

(* ------------------------------------------------------------------ *)
(* bnn.fit(loader, optim, num_epochs, callback): per epoch the library *)
(* trains on the loader, then invokes the callback with the network,   *)
(* the epoch and the epoch's average ELBO; a true return value stops   *)
(* the training early.                                                 *)
(* ------------------------------------------------------------------ *)
FitBegin ==
    /\ ip < Halt /\ at = 0
    /\ Cur.kind = "fit"
    /\ count' = Began(Cur.line)
    /\ IF Unbound(Cur)
         THEN /\ Raise(Cur.line)
              /\ UNCHANGED << iter, env, data >>
         ELSE /\ epoch' = 0
              /\ history' = << >>
              /\ IF 0 < FitArgs.num_epochs
                   THEN /\ at' = Cur.line
                        /\ ip' = ip
                        /\ bnn' = [bnn EXCEPT !.state = "fitting"]
                   ELSE /\ at' = 0
                        /\ ip' = ip + 1
                        /\ bnn' = [bnn EXCEPT !.state = "fitted"]
              /\ UNCHANGED << iter, failed, env, mcmc_bnn, cb, elbos, draws, m, sd,
                              sampled_predictions, error_ll, last >>

\* one epoch of training, ending with the invocation of the callback
FitEpoch ==
    /\ ip < Halt /\ at = 265
    /\ Cur.kind = "fit"
    /\ \E e \in ElboVals :
          /\ history' = Append(history, e)
          /\ cb' = [i |-> epoch, e |-> e]
    /\ bnn' = [bnn EXCEPT !.trained = @ + 1]
    /\ at' = Body(env[FitArgs.callback])[1].line
    /\ UNCHANGED << ip, iter, failed, count, env, mcmc_bnn, epoch, elbos, draws,
                    m, sd, sampled_predictions, error_ll, last >>

\* a callback putting the newest value first
CallbackBodyPrepend(list, i, e) == << e >> \o list

\* def callback(bnn, i, e): elbos.append(e)
CallbackBody(list, i, e) == Append(list, e)

\* the callback has no return statement: it returns None, which is false
CallbackReturn == FALSE

Callback ==
    /\ ip < Halt /\ at = 263
    /\ Cur.kind = "fit"
    /\ count' = Began(at)
    /\ IF Unbound(StmtAt(at))
         THEN /\ Raise(at)
              /\ UNCHANGED << iter, env, data >>
         ELSE /\ elbos' = CallbackBody(elbos, cb.i, cb.e)
              /\ cb' = Unset
              /\ epoch' = epoch + 1
              /\ IF ~CallbackReturn /\ epoch + 1 < FitArgs.num_epochs
                   THEN /\ at' = Cur.line
                        /\ ip' = ip
                        /\ bnn' = bnn
                   ELSE /\ at' = 0
                        /\ ip' = ip + 1
                        /\ bnn' = [bnn EXCEPT !.state = "fitted"]
              /\ UNCHANGED << iter, failed, env, mcmc_bnn, history, draws, m, sd,
                              sampled_predictions, error_ll, last >>

(* ------------------------------------------------------------------ *)
(* mcmc_bnn.fit(loader, num_samples, warmup_steps=...): the chain      *)
(* makes warmup_steps transitions that are discarded, then num_samples *)
(* transitions whose states are stored.  A sample is named by the      *)
(* number of the transition that drew it.                              *)
(* ------------------------------------------------------------------ *)
McmcFitBegin ==
    /\ ip < Halt /\ at = 0
    /\ Cur.kind = "mcmcfit"
    /\ count' = Began(Cur.line)
    /\ IF Unbound(Cur)
         THEN /\ Raise(Cur.line)
              /\ UNCHANGED << iter, env, data >>
         ELSE /\ draws' = 0
              /\ IF 0 < McmcFitArgs.warmup_steps + McmcFitArgs.num_samples
                   THEN /\ at' = Cur.line
                        /\ ip' = ip
                        /\ mcmc_bnn' = [mcmc_bnn EXCEPT !.state = "fitting",
                                                        !.samples = << >>]
                   ELSE /\ at' = 0
                        /\ ip' = ip + 1
                        /\ mcmc_bnn' = [mcmc_bnn EXCEPT !.state = "fitted",
                                                        !.samples = << >>]
              /\ UNCHANGED << iter, failed, env, bnn, epoch, history, cb, elbos,
                              m, sd, sampled_predictions, error_ll, last >>

McmcStep ==
    /\ ip < Halt /\ at = 307
    /\ Cur.kind = "mcmcfit"
    /\ draws' = draws + 1
    /\ LET stored == IF draws < McmcFitArgs.warmup_steps
                       THEN mcmc_bnn.samples
                       ELSE Append(mcmc_bnn.samples, draws + 1)
           done == draws + 1 >= McmcFitArgs.warmup_steps + McmcFitArgs.num_samples
       IN /\ mcmc_bnn' = [mcmc_bnn EXCEPT !.samples = stored,
                                          !.state = IF done THEN "fitted" ELSE @]
          /\ at' = IF done THEN 0 ELSE at
          /\ ip' = IF done THEN ip + 1 ELSE ip
    /\ UNCHANGED << iter, failed, count, env, bnn, epoch, history, cb, elbos,
                    m, sd, sampled_predictions, error_ll, last >>

(* ------------------------------------------------------------------ *)
(* predict and evaluate.                                               *)
(* ------------------------------------------------------------------ *)
RECURSIVE Sum(_)
Sum(s) == IF s = << >> THEN 0 ELSE Head(s) + Sum(Tail(s))

Squares(s) == [k \in DOMAIN s |-> s[k] * s[k]]

\* the average of the sampled predictions, as the fraction num / den
Mean(p) == [num |-> Sum(p), den |-> Len(p)]

\* the standard deviation of the sampled predictions, given by its square
\* as the fraction num / den
Std(p) == [sqnum |-> Len(p) * Sum(Squares(p)) - Sum(p) * Sum(p),
           sqden |-> Len(p) * (Len(p) - 1)]

\* what predict returns for the sampled predictions p
Aggregate(p, aggregate) == IF aggregate THEN << Mean(p), Std(p) >> ELSE p

\* the predictions predict can sample: from the guide for the VariationalBNN,
\* from the samples fit stored for the MCMC_BNN
Sampled(obj, n) ==
    IF obj = "bnn"
      THEN [1..n -> PredVals]
      ELSE {[k \in 1..n |-> mcmc_bnn.samples[pick[k]]] :
               pick \in [1..n -> DOMAIN mcmc_bnn.samples]}

Predict ==
    /\ ip < Halt /\ at = 0
    /\ Cur.kind = "predict"
    /\ count' = Began(Cur.line)
    /\ LET args == PredictArgs(Cur.line)
       IN IF Unbound(Cur) \/ Sampled(args.obj, args.num_predictions) = {}
            THEN /\ Raise(Cur.line)
                 /\ UNCHANGED << iter, env, data >>
            ELSE \E p \in Sampled(args.obj, args.num_predictions) :
                   LET result == Aggregate(p, args.aggregate)
                   IN /\ last' = [line |-> Cur.line, asked |-> args.num_predictions,
                                  preds |-> p]
                      /\ IF Cur.defs = {"m", "sd"}
                           THEN IF Len(result) = 2
                                  THEN /\ m' = result[1]
                                       /\ sd' = result[2]
                                       /\ env' = Bind(Cur)
                                       /\ ip' = ip + 1
                                       /\ UNCHANGED << at, failed >>
                                  ELSE /\ Raise(Cur.line)
                                       /\ UNCHANGED << m, sd, env >>
                           ELSE /\ env' = Bind(Cur)
                                /\ ip' = ip + 1
                                /\ UNCHANGED << at, failed, m, sd >>
                      /\ sampled_predictions' =
                            IF Cur.defs = {"sampled_predictions"}
                              THEN result ELSE sampled_predictions
                      /\ UNCHANGED << iter, bnn, mcmc_bnn, epoch, history, cb, elbos,
                                      draws, error_ll >>

\* the two values evaluate returns, each reduced over the sampled predictions
\* with reduction='mean'; what they measure is not modelled further
Error(p) == Mean(p)

LogLikelihood(p) == Mean(Squares(p))

\* error, ll = bnn.evaluate(x_test, y_test, 32, reduction='mean')
Evaluate ==
    /\ ip < Halt /\ at = 0
    /\ Cur.kind = "evaluate"
    /\ count' = Began(Cur.line)
    /\ IF Unbound(Cur)
         THEN /\ Raise(Cur.line)
              /\ UNCHANGED << iter, env, data >>
         ELSE \E p \in Sampled(EvaluateArgs.obj, EvaluateArgs.num_predictions) :
                /\ last' = [line |-> Cur.line, asked |-> EvaluateArgs.num_predictions,
                            preds |-> p]
                /\ error_ll' = << Error(p), LogLikelihood(p) >>
                /\ env' = Bind(Cur)
                /\ ip' = ip + 1
                /\ UNCHANGED << at, iter, failed, bnn, mcmc_bnn, epoch, history, cb,
                                elbos, draws, m, sd, sampled_predictions >>

(* ------------------------------------------------------------------ *)
(* A statement, or the library call it is in, fails.                   *)
(* ------------------------------------------------------------------ *)
CurLine == IF at # 0 THEN at ELSE Cur.line

\* control is inside a library call that has begun (fit, mcmc fit)
InCall == at # 0 /\ at = Cur.line

Fail ==
    /\ ip < Halt
    /\ count' = IF InCall THEN count ELSE Began(CurLine)
    /\ Raise(CurLine)
    /\ UNCHANGED << iter, env, data >>

Next ==
    \/ ExecSimple
    \/ NewBnn
    \/ NewMcmcBnn
    \/ ForEnter
    \/ ForBody
    \/ FitBegin
    \/ FitEpoch
    \/ Callback
    \/ McmcFitBegin
    \/ McmcStep
    \/ Predict
    \/ Evaluate
    \/ Fail

Spec == Init /\ [][Next]_vars

(* ================================================================== *)
(* Properties.                                                         *)
(* ================================================================== *)
Finished == ip = Halt /\ failed = 0

Reached(l) == count[l] > 0 \/ (ip < Halt /\ at = 0 /\ Cur.line = l)

\* C1: run in notebook order, every predict / evaluate on bnn or mcmc_bnn is
\* reached only after the fit of that same object has completed, and every fit
\* is reached only after the dataset, the network, the prior and the likelihood
\* its object is built from have been created.
C1_PipelineOrder ==
    /\ \A l \in {330, 382, 411} :
          Reached(l) => bnn.state = "fitted" /\ count[265] = 1
    /\ Reached(352) => mcmc_bnn.state = "fitted" /\ count[307] = 1
    /\ Reached(265) =>
          /\ env["dataset"] # 0 /\ env["loader"] # 0
          /\ bnn.net # 0 /\ bnn.prior # 0 /\ bnn.likelihood # 0
          /\ count[76] = 1 /\ count[162] = 1 /\ count[183] = 1 /\ count[201] = 1
    /\ Reached(307) =>
          /\ env["dataset"] # 0 /\ env["loader"] # 0
          /\ mcmc_bnn.net # 0 /\ mcmc_bnn.prior # 0 /\ mcmc_bnn.likelihood # 0
          /\ count[76] = 1 /\ count[294] = 1 /\ count[295] = 1 /\ count[296] = 1

C1_Witness ==
    /\ Finished
    /\ count[330] = 1 /\ count[352] = 1 /\ count[382] = 1 /\ count[411] = 1

\* C2: during bnn.fit the callback is invoked once after each epoch, in
\* increasing epoch order, with the epoch index and that epoch's average ELBO:
\* while the fit runs len(elbos) is the number of completed epochs, the k-th
\* element of elbos is the ELBO of the k-th epoch, and when fit has returned
\* elbos holds exactly num_epochs values.
C2_CallbackPerEpoch ==
    /\ bnn.state = "fitting" /\ failed = 0 =>
          /\ Len(elbos) = epoch
          /\ count[263] = epoch
          /\ Len(history) = IF at = 263 THEN epoch + 1 ELSE epoch
          /\ at = 263 => cb.i = epoch /\ cb.e = history[epoch + 1]
    /\ bnn.state \in {"fitting", "fitted"} =>
          \A k \in DOMAIN elbos : k \in DOMAIN history /\ elbos[k] = history[k]
    /\ bnn.state = "fitted" =>
          /\ Len(elbos) = FitArgs.num_epochs
          /\ count[263] = FitArgs.num_epochs
          /\ elbos = history

C2_Witness ==
    /\ bnn.state = "fitted"
    /\ Len(elbos) = NumEpochs
    /\ elbos[1] # elbos[NumEpochs]

C5_PredictResult ==
    /\ last.line \in {330, 352} /\ failed = 0 =>
          /\ Len(last.preds) = NumPredictions
          /\ m = Mean(last.preds)
          /\ sd = Std(last.preds)
    /\ last.line = 382 /\ failed = 0 => sampled_predictions = last.preds
    /\ Reached(383) => Len(sampled_predictions) = NumSampled
    /\ count[386] <= NumSampled
    /\ Reached(387) => count[386] = NumSampled

C5_Witness ==
    /\ Finished
    /\ count[386] = NumSampled
    /\ \E j, k \in DOMAIN sampled_predictions :
          sampled_predictions[j] # sampled_predictions[k]

\* how often a statement runs in one complete run: once, except the statements
\* in the body of a for loop (once per item) and of the callback (once per epoch)
Times(l) ==
    CASE l \in {114, 115, 116} -> MleIters
      [] l \in {342, 365} -> RangeHi - RangeLo
      [] l = 386 -> NumSampled
      [] l = 263 -> NumEpochs
      [] OTHER -> 1

\* C6 as stated: no statement of the notebook is executed more than once.
C6_NoStatementTwice == \A l \in Lines : count[l] <= 1

\* C6: the notebook has no retry and no conditional execution, but it has four
\* for loops and a callback: a statement outside their bodies runs at most once,
\* a statement in a loop body once per item, the callback body once per epoch,
\* and a complete run has executed every statement exactly that often.
C6_OncePerIteration ==
    /\ \A l \in Lines : count[l] <= Times(l)
    /\ Finished => \A l \in Lines : count[l] = Times(l)

C6_Witness ==
    /\ Finished
    /\ count[114] = MleIters /\ count[342] = RangeHi - RangeLo
    /\ count[263] = NumEpochs /\ count[386] = NumSampled

\* C7: a failure surfaces unhandled: the step in which a statement or library
\* call fails ends the run at that line, changes no variable of the notebook,
\* does not run the statement again, and no step follows it.
C7_FailureUnhandled ==
    [][ /\ failed = 0
        /\ failed' # 0 =>
              /\ failed' = CurLine
              /\ ip' = Halt /\ at' = 0
              /\ count'[failed'] <= Times(failed')
              /\ UNCHANGED << env, elbos, m, sd, sampled_predictions, error_ll >>
      ]_vars

C7_Witness ==
    /\ failed = 263
    /\ ip = Halt
    /\ Len(elbos) = 1
    /\ bnn.state = "fitting"

====
